---- MODULE Spec2Model ----
(***************************************************************************)
(* MappedErrors (src/utils/errors/base.rs): the error value, its           *)
(* classification, the code overlay, construction with chaining, the       *)
(* canonical textual form and its parser.                                  *)
(*                                                                         *)
(* A Rust String is modelled as a sequence of one-character strings, so    *)
(* that formatting and the regular expression work character by character. *)
(***************************************************************************)
EXTENDS Integers, Sequences, FiniteSets, TLC

\* ---------------------------------------------------------------- bounds
\* How many times a value may be used as the cause of a new construction.
MaxChain == 2
\* Length of the generated code and type tokens of the parser's inputs.
MaxTokLen == 1

\* ------------------------------------------------------------ characters
Lower == {"a", "b", "c", "d", "e", "f", "g", "h", "i", "j", "k", "l", "m",
          "n", "o", "p", "q", "r", "s", "t", "u", "v", "w", "x", "y", "z"}
Upper == {"A", "B", "C", "D", "E", "F", "G", "H", "I", "J", "K", "L", "M",
          "N", "O", "P", "Q", "R", "S", "T", "U", "V", "W", "X", "Y", "Z"}
Digit == {"0", "1", "2", "3", "4", "5", "6", "7", "8", "9"}

LowerSeq == <<"a", "b", "c", "d", "e", "f", "g", "h", "i", "j", "k", "l", "m",
        "n", "o", "p", "q", "r", "s", "t", "u", "v", "w", "x", "y", "z">>

UpperSeq == <<"A", "B", "C", "D", "E", "F", "G", "H", "I", "J", "K", "L", "M",
        "N", "O", "P", "Q", "R", "S", "T", "U", "V", "W", "X", "Y", "Z">>

ToUpper(c) ==
    IF c \in Lower
    THEN UpperSeq[CHOOSE i \in 1..26 : LowerSeq[i] = c]
    ELSE c

UpperCase(s) == [i \in 1..Len(s) |-> ToUpper(s[i])]

\* Option<T>
None == <<"None">>
Some(x) == <<"Some", x>>
is_some(o) == o[1] = "Some"
unwrap_or(o, d) == IF is_some(o) THEN o[2] ELSE d

\* Result<T, ()>
Ok(x) == <<"Ok", x>>
Err == <<"Err">>

\* Concatenation of a sequence of strings.
RECURSIVE Concat(_)
Concat(parts) ==
    IF parts = <<>> THEN <<>> ELSE Head(parts) \o Concat(Tail(parts))

\* s holds the literal lit from index i on.
HasAt(s, i, lit) ==
    /\ i + Len(lit) - 1 <= Len(s)
    /\ SubSeq(s, i, i + Len(lit) - 1) = lit

\* ------------------------------------------------------------- ErrorType
ErrorType ==
    {"UndefinedError", "CreationError", "UpdatingError", "FetchingError",
     "DeletionError", "UseCaseError", "ExecutionError",
     "InvalidRepositoryError", "InvalidArgumentError"}

\* impl Display for ErrorType
ErrorType_fmt(self) ==
    CASE self = "UndefinedError" -> <<"u", "n", "d", "e", "f", "i", "n", "e",
            "d", "-", "e", "r", "r", "o", "r">>
      [] self = "CreationError" -> <<"c", "r", "e", "a", "t", "i", "o", "n",
              "-", "e", "r", "r", "o", "r">>
      [] self = "UpdatingError" -> <<"u", "p", "d", "a", "t", "i", "n", "g",
              "-", "e", "r", "r", "o", "r">>
      [] self = "FetchingError" -> <<"f", "e", "t", "c", "h", "i", "n", "g",
              "-", "e", "r", "r", "o", "r">>
      [] self = "DeletionError" -> <<"d", "e", "l", "e", "t", "i", "o", "n",
              "-", "e", "r", "r", "o", "r">>
      [] self = "UseCaseError" -> <<"u", "s", "e", "-", "c", "a", "s", "e",
              "-", "e", "r", "r", "o", "r">>
      [] self = "ExecutionError" -> <<"e", "x", "e", "c", "u", "t", "i", "o",
              "n", "-", "e", "r", "r", "o", "r">>
      [] self = "InvalidRepositoryError" -> <<"i", "n", "v", "a", "l", "i",
              "d", "-", "r", "e", "p", "o", "s", "i", "t", "o", "r", "y", "-",
              "e", "r", "r", "o", "r">>
      [] self = "InvalidArgumentError" -> <<"i", "n", "v", "a", "l", "i", "d",
              "-", "a", "r", "g", "u", "m", "e", "n", "t", "-", "e", "r", "r",
              "o", "r">>

\* Mutant: the name is matched without regard to case.
ErrorType_from_str_nocase(s) ==
    LET same == {t \in ErrorType :
                    UpperCase(ErrorType_fmt(t)) = UpperCase(s)}
    IN  IF same = {} THEN Err ELSE Ok(CHOOSE t \in same : TRUE)

\* impl FromStr for ErrorType
ErrorType_from_str(s) ==
    CASE s = <<"u", "n", "d", "e", "f", "i", "n", "e", "d", "-", "e", "r",
            "r", "o", "r">> -> Ok("UndefinedError")
      [] s = <<"c", "r", "e", "a", "t", "i", "o", "n", "-", "e", "r", "r",
              "o", "r">> -> Ok("CreationError")
      [] s = <<"u", "p", "d", "a", "t", "i", "n", "g", "-", "e", "r", "r",
              "o", "r">> -> Ok("UpdatingError")
      [] s = <<"f", "e", "t", "c", "h", "i", "n", "g", "-", "e", "r", "r",
              "o", "r">> -> Ok("FetchingError")
      [] s = <<"d", "e", "l", "e", "t", "i", "o", "n", "-", "e", "r", "r",
              "o", "r">> -> Ok("DeletionError")
      [] s = <<"u", "s", "e", "-", "c", "a", "s", "e", "-", "e", "r", "r",
              "o", "r">> -> Ok("UseCaseError")
      [] s = <<"e", "x", "e", "c", "u", "t", "i", "o", "n", "-", "e", "r",
              "r", "o", "r">> -> Ok("ExecutionError")
      [] s = <<"i", "n", "v", "a", "l", "i", "d", "-", "r", "e", "p", "o",
              "s", "i", "t", "o", "r", "y", "-", "e", "r", "r", "o",
              "r">> -> Ok("InvalidRepositoryError")
      [] s = <<"i", "n", "v", "a", "l", "i", "d", "-", "a", "r", "g", "u",
              "m", "e", "n", "t", "-", "e", "r", "r", "o",
              "r">> -> Ok("InvalidArgumentError")
      [] OTHER -> Err

\* ------------------------------------------------------------ ErrorCodes
Code(c) == <<"Code", c>>
Unmapped == <<"Unmapped">>

ErrorCodes_default == Unmapped

\* ---------------------------------------------------------- MappedErrors
code_key == <<"c", "o", "d", "e">>

error_type_key == <<"e", "r", "r", "o", "r", "_", "t", "y", "p", "e">>

\* Mutant: the error_type field is written before the code field.
MappedErrors_fmt_swapped(self) ==
    LET code_value == IF self.code[1] = "Code" THEN self.code[2] ELSE <<"n",
            "o", "n", "e">>
    IN  Concat(<< <<"[">>, error_type_key, <<"=">>,
                 ErrorType_fmt(self.error_type), <<",">>, code_key, <<"=">>,
                 code_value, <<"]", " ">>, self.msg >>)

\* impl Display for MappedErrors: "[{}={},{}={}] {}"
MappedErrors_fmt(self) ==
    LET code_value == IF self.code[1] = "Code" THEN self.code[2] ELSE <<"n",
            "o", "n", "e">>
    IN  Concat(<< <<"[">>, code_key, <<"=">>, code_value, <<",">>, error_type_key,
                 <<"=">>, ErrorType_fmt(self.error_type), <<"]",
                         " ">>, self.msg >>)

error_type(self) == self.error_type

msg(self) == MappedErrors_fmt(self)

\* {:?} of a string: the text between double quotes, with the double quote,
\* the backslash and the control characters escaped (str::escape_debug).
EscapeDebug(c) ==
    CASE c = "\"" -> <<"\\", "\"">>
      [] c = "\\" -> <<"\\", "\\">>
      [] c = "\n" -> <<"\\", "n">>
      [] c = "\t" -> <<"\\", "t">>
      [] c = "\r" -> <<"\\", "r">>
      [] OTHER -> <<c>>

\* The escapes of the characters of s, in order (by halves, to keep the
\* evaluation shallow).
RECURSIVE EscapeAll(_)
EscapeAll(s) ==
    IF Len(s) = 0 THEN <<>>
    ELSE IF Len(s) = 1 THEN EscapeDebug(s[1])
    ELSE LET half == Len(s) \div 2
         IN  EscapeAll(SubSeq(s, 1, half))
                 \o EscapeAll(SubSeq(s, half + 1, Len(s)))

Debug(s) == <<"\"">> \o EscapeAll(s) \o <<"\"">>

\* Mutant: an unspecified flag counts as unexpected.
LogLine_unexpected_default(msg_, exp, error_type_) ==
    IF ~unwrap_or(exp, FALSE)
    THEN [level |-> "error",
          text |-> Concat(<< <<"U", "n", "e", "x", "p", "e", "c", "t", "e",
                  "d", " ", "e", "r", "r", "o", "r", ":", " ", "(">>,
                             ErrorType_fmt(error_type_), <<")">>, msg_ >>)]
    ELSE [level |-> "warn", text |-> Debug(msg_)]

\* The line handed to the logger by error!(..) or warn!(..).
LogLine(msg_, exp, error_type_) ==
    IF ~unwrap_or(exp, TRUE)
    THEN [level |-> "error",
          text |-> Concat(<< <<"U", "n", "e", "x", "p", "e", "c", "t", "e",
                  "d", " ", "e", "r", "r", "o", "r", ":", " ", "(">>,
                             ErrorType_fmt(error_type_), <<")">>, msg_ >>)]
    ELSE [level |-> "warn", text |-> Debug(msg_)]

\* Mutant: the previous error enters the message through its msg() accessor,
\* the rendered form, instead of its msg field.
RECURSIVE new_rendered_cause(_, _, _, _)
new_rendered_cause(msg_, exp, prev, error_type_) ==
    LET line == LogLine(msg_, exp, error_type_)
        frame == [msg |-> msg_, exp |-> exp, prev |-> prev,
                  error_type |-> error_type_]
    IN  IF is_some(prev)
        THEN LET updated_msg ==
                     Concat(<< <<"[", "C", "u", "r", "r", "e", "n", "t", " ",
                             "e", "r", "r", "o", "r", "]",
                             " ">>, Debug(msg_),
                               <<";", " ", "[", "P", "r", "e", "v", "i", "o",
                                       "u", "s", " ", "e", "r", "r", "o", "r",
                                       "]", " ">>,
                               Debug(msg(prev[2])) >>)
                 inner == new_rendered_cause(updated_msg, exp, None,
                                             error_type_)
             IN  [inner EXCEPT !.log = <<line>> \o inner.log,
                               !.calls = <<frame>> \o inner.calls]
        ELSE [val |-> [msg |-> msg_, error_type |-> error_type_,
                       code |-> ErrorCodes_default],
              panicked |-> FALSE,
              log |-> <<line>>,
              calls |-> <<frame>>]

\* Mutant: the recursive call is handed the cause once more before it is
\* cleared, so that the construction recurses twice.
RECURSIVE new_cause_kept(_, _, _, _)
new_cause_kept(msg_, exp, prev, error_type_) ==
    LET line == LogLine(msg_, exp, error_type_)
        frame == [msg |-> msg_, exp |-> exp, prev |-> prev,
                  error_type |-> error_type_]
    IN  IF is_some(prev)
        THEN LET updated_msg ==
                     Concat(<< <<"[", "C", "u", "r", "r", "e", "n", "t", " ",
                             "e", "r", "r", "o", "r", "]",
                             " ">>, Debug(msg_),
                               <<";", " ", "[", "P", "r", "e", "v", "i", "o",
                                       "u", "s", " ", "e", "r", "r", "o", "r",
                                       "]", " ">>, Debug(prev[2].msg) >>)
                 again == HasAt(msg_, 1, <<"[", "C", "u", "r", "r", "e", "n",
                         "t", " ", "e", "r", "r", "o", "r", "]", " ">>)
                 inner == new_cause_kept(updated_msg, exp,
                                         IF again THEN None ELSE prev,
                                         error_type_)
             IN  [inner EXCEPT !.log = <<line>> \o inner.log,
                               !.calls = <<frame>> \o inner.calls]
        ELSE [val |-> [msg |-> msg_, error_type |-> error_type_,
                       code |-> ErrorCodes_default],
              panicked |-> FALSE,
              log |-> <<line>>,
              calls |-> <<frame>>]

\* MappedErrors::new. The result carries, next to the value returned, the
\* log lines emitted and the invocations of new made, outermost first.
RECURSIVE new(_, _, _, _)
new(msg_, exp, prev, error_type_) ==
    LET line == LogLine(msg_, exp, error_type_)
        frame == [msg |-> msg_, exp |-> exp, prev |-> prev,
                  error_type |-> error_type_]
    IN  IF is_some(prev)
        THEN LET updated_msg ==
                     Concat(<< <<"[", "C", "u", "r", "r", "e", "n", "t", " ",
                             "e", "r", "r", "o", "r", "]",
                             " ">>, Debug(msg_),
                               <<";", " ", "[", "P", "r", "e", "v", "i", "o",
                                       "u", "s", " ", "e", "r", "r", "o", "r",
                                       "]", " ">>, Debug(prev[2].msg) >>)
                 inner == new(updated_msg, exp, None, error_type_)
             IN  [inner EXCEPT !.log = <<line>> \o inner.log,
                               !.calls = <<frame>> \o inner.calls]
        ELSE [val |-> [msg |-> msg_, error_type |-> error_type_,
                       code |-> ErrorCodes_default],
              panicked |-> FALSE,
              log |-> <<line>>,
              calls |-> <<frame>>]

\* Mutant: the code is stored as given, "none" included.
with_code_verbatim(self, code) == [self EXCEPT !.code = Code(code)]

\* MappedErrors::with_code
with_code(self, code) ==
    IF code = <<"n", "o", "n", "e">>
    THEN [self EXCEPT !.code = Unmapped]
    ELSE [self EXCEPT !.code = Code(code)]

\* The character classes of the pattern of from_str_msg.
\* Mutant: the code token also admits the hyphen and the underscore.
CodeClass_word == Lower \cup Upper \cup Digit \cup {"-", "_"}

\* [a-zA-Z0-9]
CodeClass == Lower \cup Upper \cup Digit

\* [a-zA-Z-]
TypeClass == Lower \cup Upper \cup {"-"}

\* \s, as far as the white space characters of the modelled strings go
SpaceClass == {" ", "\t", "\n", "\r"}

\* . matches every character but the line feed
DotClass(c) == c # "\n"

\* The index after the longest run of characters of class that starts at i.
RunEnd(s, i, class) ==
    LET stops == {q \in i..Len(s) : s[q] \notin class}
    IN  IF stops = {} THEN Len(s) + 1
        ELSE CHOOSE q \in stops : \A r \in stops : q <= r

\* Regex::captures for
\*   ^\[code=([a-zA-Z0-9]+),error_type=([a-zA-Z-]+)\]\s(.+)$
\* Neither class holds the character that follows its group ("," and "]"),
\* so each greedy group is the longest run and the match is unique.
\* The capture is indexed as in the regex crate: 0 is the whole match.
captures(s) ==
    LET open == <<"[", "c", "o", "d", "e", "=">>
        mid == <<",", "e", "r", "r", "o", "r", "_", "t", "y", "p", "e", "=">>
        n == Len(s)
    IN  IF ~HasAt(s, 1, open) THEN None
        ELSE LET c0 == Len(open) + 1
                 c1 == RunEnd(s, c0, CodeClass)
             IN  IF c1 = c0 \/ ~HasAt(s, c1, mid) THEN None
                 ELSE LET t0 == c1 + Len(mid)
                          t1 == RunEnd(s, t0, TypeClass)
                      IN  IF t1 = t0 \/ ~HasAt(s, t1, <<"]">>) THEN None
                          ELSE IF t1 + 1 > n \/ s[t1 + 1] \notin SpaceClass
                               THEN None
                          ELSE IF t1 + 2 > n
                                  \/ \E q \in (t1 + 2)..n : ~DotClass(s[q])
                               THEN None
                          ELSE Some([i \in 0..3 |->
                                       CASE i = 0 -> s
                                         [] i = 1 -> SubSeq(s, c0, c1 - 1)
                                         [] i = 2 -> SubSeq(s, t0, t1 - 1)
                                         [] i = 3 -> SubSeq(s, t1 + 2, n)])

\* Regex::is_match
is_match(s) == is_some(captures(s))

\* The outcome of a call that panicked (unwrap of None).
Panic == [val |-> None, panicked |-> TRUE, log |-> <<>>, calls |-> <<>>]

\* Mutant: the unclassified path does not keep the input text.
from_str_msg_text_lost(msg_) ==
    IF is_match(msg_)
    THEN LET found == captures(msg_)
         IN  IF ~is_some(found) THEN Panic
             ELSE LET capture == found[2]
                      code == capture[1]
                      tail == capture[3]
                      parsed == ErrorType_from_str(capture[2])
                      error_type_ == IF parsed[1] = "Ok" THEN parsed[2]
                                     ELSE "UndefinedError"
                      made == new(tail, None, None, error_type_)
                  IN  [made EXCEPT !.val = with_code(made.val, code)]
    ELSE new(<<>>, None, None, "UndefinedError")

\* Mutant: an unknown type token sends the whole input down the
\* unclassified path.
from_str_msg_type_strict(msg_) ==
    IF is_match(msg_)
    THEN LET found == captures(msg_)
         IN  IF ~is_some(found) THEN Panic
             ELSE LET capture == found[2]
                      code == capture[1]
                      tail == capture[3]
                      parsed == ErrorType_from_str(capture[2])
                      made == new(tail, None, None, parsed[2])
                  IN  IF parsed[1] = "Ok"
                      THEN [made EXCEPT !.val = with_code(made.val, code)]
                      ELSE new(msg_, None, None, "UndefinedError")
    ELSE new(msg_, None, None, "UndefinedError")

\* MappedErrors::from_str_msg
from_str_msg(msg_) ==
    IF is_match(msg_)
    THEN LET found == captures(msg_)
         IN  IF ~is_some(found) THEN Panic
             ELSE LET capture == found[2]
                      code == capture[1]
                      tail == capture[3]
                      parsed == ErrorType_from_str(capture[2])
                      error_type_ == IF parsed[1] = "Ok" THEN parsed[2]
                                     ELSE "UndefinedError"
                      made == new(tail, None, None, error_type_)
                  IN  [made EXCEPT !.val = with_code(made.val, code)]
    ELSE new(msg_, None, None, "UndefinedError")

\* ----------------------------------------------------------------- state
\* A caller of the library: the value it holds and its last call.
VARIABLES
    err,        \* Option<MappedErrors>: the value the caller holds
    op,         \* the function called last
    args,       \* its arguments
    ret,        \* what it returned
    log,        \* the log lines it emitted, in order
    calls,      \* the invocations of new it made, outermost first
    panicked,   \* whether it panicked
    src         \* the value whose rendering was parsed by from_str_msg, if any

vars == <<err, op, args, ret, log, calls, panicked, src>>

\* ---------------------------------------------------------------- inputs
OptBool == {None, Some(TRUE), Some(FALSE)}

Messages ==
    { <<>>, <<"T", "h", "i", "s", " ", "i", "s", " ", "a", " ", "t", "e", "s",
            "t", " ", "e", "r", "r", "o", "r">>, <<"\"", "\\", "\\">>, <<"a",
            "\n", "b">> }

ChainMessages == { <<"a", "\"", "\\", "\\">> }

ChainTypes == {"UndefinedError", "UseCaseError", "InvalidArgumentError"}

Codes == { <<"n", "o", "n", "e">>, <<"A", "B", "1", "2">>, <<"E", "-", "1">> }

SampleInputs ==
    { <<"[", "c", "o", "d", "e", "=", "n", "o", "n", "e", ",", "e", "r", "r",
            "o", "r", "_", "t", "y", "p", "e", "=", "u", "n", "d", "e", "f",
            "i", "n", "e", "d", "-", "e", "r", "r", "o", "r", "]", " ", "T",
            "h", "i", "s", " ", "i", "s", " ", "a", " ", "t", "e", "s", "t",
            " ", "e", "r", "r", "o", "r">>,
      <<"[", "c", "o", "d", "e", "=", "A", "B", "1", "2", ",", "e", "r", "r",
              "o", "r", "_", "t", "y", "p", "e", "=", "t", "o", "t", "a", "l",
              "l", "y", "-", "b", "o", "g", "u", "s", "]", " ", "T", "h", "i",
              "s", " ", "i", "s", " ", "a", " ", "t", "e", "s", "t", " ", "e",
              "r", "r", "o", "r">>,
      <<"n", "o", "t", " ", "a", " ", "f", "o", "r", "m", "a", "t", "t", "e",
              "d", " ", "e", "r", "r", "o", "r", " ", "a", "t", " ", "a", "l",
              "l">> }

\* How many causes were flattened into the message.
Occurrences(s, lit) == Cardinality({i \in 1..Len(s) : HasAt(s, i, lit)})

Depth(e) == Occurrences(e.msg, <<"[", "C", "u", "r", "r", "e", "n", "t", " ",
        "e", "r", "r", "o", "r", "]", " ">>)

\* --------------------------------------------------------------- actions
Init ==
    /\ err = None
    /\ op = "init"
    /\ args = <<>>
    /\ ret = None
    /\ log = <<>>
    /\ calls = <<>>
    /\ panicked = FALSE
    /\ src = None

\* The effects of a call of new or from_str_msg.
Returned(out) ==
    /\ ret' = out.val
    /\ log' = out.log
    /\ calls' = out.calls
    /\ panicked' = out.panicked

\* The effects of a call that neither logs nor constructs.
Quiet ==
    /\ log' = <<>>
    /\ calls' = <<>>
    /\ panicked' = FALSE

\* MappedErrors::new(msg, exp, None, error_type), by a caller that holds no
\* value; the caller keeps the result.
New(m, exp, t) ==
    /\ err = None
    /\ op' = "new"
    /\ args' = [msg |-> m, exp |-> exp, prev |-> None, error_type |-> t]
    /\ LET out == new(m, exp, None, t)
       IN  Returned(out) /\ err' = Some(out.val)
    /\ src' = None

\* MappedErrors::new(msg, exp, Some(held), error_type): the held value is
\* moved into the call and the caller keeps the result.
NewWithCause ==
    /\ is_some(err)
    /\ Depth(err[2]) < MaxChain
    /\ \E m \in ChainMessages, exp \in OptBool, t \in ChainTypes :
          /\ op' = "new"
          /\ args' = [msg |-> m, exp |-> exp, prev |-> err, error_type |-> t]
          /\ LET out == new(m, exp, err, t)
             IN  Returned(out) /\ err' = Some(out.val)
    /\ src' = None

\* held.with_code(code)
WithCode(c) ==
    /\ is_some(err)
    /\ op' = "with_code"
    /\ args' = [self |-> err[2], code |-> c]
    /\ ret' = with_code(err[2], c)
    /\ err' = Some(with_code(err[2], c))
    /\ Quiet
    /\ src' = None

\* format!("{}", held)
Render ==
    /\ is_some(err)
    /\ op' = "fmt"
    /\ args' = [self |-> err[2]]
    /\ ret' = MappedErrors_fmt(err[2])
    /\ Quiet
    /\ UNCHANGED <<err, src>>

\* held.msg()
Msg ==
    /\ is_some(err)
    /\ op' = "msg"
    /\ args' = [self |-> err[2]]
    /\ ret' = msg(err[2])
    /\ Quiet
    /\ UNCHANGED <<err, src>>

\* MappedErrors::from_str_msg(text), by a caller that holds no value; the
\* caller keeps the result.
FromStrMsg(text) ==
    /\ err = None
    /\ op' = "from_str_msg"
    /\ args' = [msg |-> text]
    /\ LET out == from_str_msg(text)
       IN  /\ Returned(out)
           /\ err' = IF out.panicked THEN None ELSE Some(out.val)
    /\ src' = None

\* MappedErrors::from_str_msg of the text just rendered. The caller gives up
\* the value it rendered (src remembers it) and does not keep the result.
FromStrMsgRendered ==
    /\ op \in {"fmt", "msg"}
    /\ op' = "from_str_msg"
    /\ args' = [msg |-> ret]
    /\ Returned(from_str_msg(ret))
    /\ err' = None
    /\ src' = Some(args.self)

\* The caller lets go of what it holds.
Drop ==
    /\ op # "init"
    /\ err' = None
    /\ op' = "init"
    /\ args' = <<>>
    /\ ret' = None
    /\ Quiet
    /\ src' = None

Next ==
    \/ \E m \in Messages, exp \in OptBool, t \in ErrorType : New(m, exp, t)
    \/ NewWithCause
    \/ \E c \in Codes : WithCode(c)
    \/ Render
    \/ Msg
    \/ \E text \in SampleInputs : FromStrMsg(text)
    \/ FromStrMsgRendered
    \/ Drop

Spec == Init /\ [][Next]_vars

\* ------------------------------------------------- the parser's inputs
\* Characters of the generated tokens: a lowercase letter, an uppercase
\* letter, a digit, the hyphen, and two characters of neither class, one
\* of them the bracket that closes the header.
TokAlphabet == {"a", "Z", "1", "-", "_", "]"}

\* The strings over TokAlphabet of length at most n.
RECURSIVE Strings(_)
Strings(n) ==
    IF n = 0 THEN {<<>>}
    ELSE Strings(n - 1)
            \cup {Append(s, c) : s \in Strings(n - 1), c \in TokAlphabet}

CodeTokens == { <<"n", "o", "n", "e">>, <<"A", "B", "1",
        "2">> } \cup Strings(MaxTokLen)

TypeTokens ==
    { <<"t", "o", "t", "a", "l", "l", "y", "-", "b", "o", "g", "u",
            "s">>, <<"c", "r", "e", "a", "t", "i", "o", "n", "-", "e", "r",
            "r", "o", "r">>, <<"C", "r", "e", "a", "t", "i", "o", "n", "-",
            "E", "r", "r", "o", "r">> }
        \cup Strings(MaxTokLen)

\* What follows the header: a separator and a message tail.
Layouts ==
    { << <<" ">>, <<"h", "i">> >>, << <<"\n">>, <<"h",
            "i">> >>, << <<>>, <<"h", "i">> >>,
      << <<" ">>, <<>> >>, << <<" ">>, <<"a", "\n", "b">> >> }

\* A text laid out as the canonical form.
Structured(code, type, sep, tail) ==
    Concat(<< <<"[", "c", "o", "d", "e", "=">>, code, <<",", "e", "r", "r",
            "o", "r", "_", "t", "y", "p", "e",
            "=">>, type, <<"]">>, sep, tail >>)

RawInputs ==
    { <<"n", "o", "t", " ", "a", " ", "f", "o", "r", "m", "a", "t", "t", "e",
            "d", " ", "e", "r", "r", "o", "r", " ", "a", "t", " ", "a", "l",
            "l">>,
      <<>>,
      <<" ", "[", "c", "o", "d", "e", "=", "A", "B", "1", "2", ",", "e", "r",
              "r", "o", "r", "_", "t", "y", "p", "e", "=", "c", "r", "e", "a",
              "t", "i", "o", "n", "-", "e", "r", "r", "o", "r", "]", " ", "h",
              "i">>,
      <<"[", "e", "r", "r", "o", "r", "_", "t", "y", "p", "e", "=", "c", "r",
              "e", "a", "t", "i", "o", "n", "-", "e", "r", "r", "o", "r", ",",
              "c", "o", "d", "e", "=", "A", "B", "1", "2", "]", " ", "h",
              "i">>,
      <<"[", "c", "o", "d", "e", "=", "A", "B", "1", "2", ",", " ", "e", "r",
              "r", "o", "r", "_", "t", "y", "p", "e", "=", "c", "r", "e", "a",
              "t", "i", "o", "n", "-", "e", "r", "r", "o", "r", "]", " ", "h",
              "i">>,
      <<"[", "C", "o", "d", "e", "=", "A", "B", "1", "2", ",", "e", "r", "r",
              "o", "r", "_", "t", "y", "p", "e", "=", "c", "r", "e", "a", "t",
              "i", "o", "n", "-", "e", "r", "r", "o", "r", "]", " ", "h",
              "i">>,
      <<"[", "c", "o", "d", "e", "=", "A", "B", "1", "2", ",", "e", "r", "r",
              "o", "r", "_", "t", "y", "p", "e", "=", "c", "r", "e", "a", "t",
              "i", "o", "n", "-", "e", "r", "r", "o", "r", "]">> }

NextParse ==
    \/ \E code \in CodeTokens, type \in TypeTokens, rest \in Layouts :
          FromStrMsg(Structured(code, type, rest[1], rest[2]))
    \/ \E text \in RawInputs : FromStrMsg(text)

SpecParse == Init /\ [][NextParse]_vars

\* ------------------------------------------- the ErrorType conversions
\* Strings close to the canonical name n, and n itself.
Variants(n) ==
    { n,
      [i \in 1..Len(n) |-> IF i = 1 THEN ToUpper(n[i]) ELSE n[i]],
      [i \in 1..Len(n) |-> ToUpper(n[i])],
      [i \in 1..Len(n) |-> IF n[i] = "-" THEN "_" ELSE n[i]],
      [i \in 1..Len(n) |-> IF n[i] = "-" THEN " " ELSE n[i]],
      SubSeq(n, 1, Len(n) - 1),
      SubSeq(n, 2, Len(n)),
      SubSeq(n, 1, Len(n) - 6),
      n \o <<"s">>,
      <<" ">> \o n,
      n \o <<" ">>,
      n \o <<"\n">> }

TypeStrings ==
    UNION {Variants(ErrorType_fmt(t)) : t \in ErrorType}
        \cup { <<>>, <<"e", "r", "r", "o", "r">>, <<"u", "n", "d", "e", "f",
                "i", "n", "e", "d", "E", "r", "r", "o", "r">>, <<"U", "n",
                "d", "e", "f", "i", "n", "e", "d", "E", "r", "r", "o",
                "r">> }

\* format!("{}", error_type)
ErrorTypeDisplay(t) ==
    /\ op' = "ErrorType::fmt"
    /\ args' = [self |-> t]
    /\ ret' = ErrorType_fmt(t)
    /\ Quiet
    /\ src' = None
    /\ UNCHANGED err

\* ErrorType::from_str(s)
ErrorTypeFromStr(s) ==
    /\ op' = "ErrorType::from_str"
    /\ args' = [s |-> s]
    /\ ret' = ErrorType_from_str(s)
    /\ Quiet
    /\ src' = None
    /\ UNCHANGED err

\* ErrorType::from_str of the name just displayed; src remembers the variant.
ErrorTypeFromStrDisplayed ==
    /\ op = "ErrorType::fmt"
    /\ op' = "ErrorType::from_str"
    /\ args' = [s |-> ret]
    /\ ret' = ErrorType_from_str(ret)
    /\ Quiet
    /\ src' = Some(args.self)
    /\ UNCHANGED err

NextErrorType ==
    \/ \E t \in ErrorType : ErrorTypeDisplay(t)
    \/ \E s \in TypeStrings : ErrorTypeFromStr(s)
    \/ ErrorTypeFromStrDisplayed

SpecErrorType == Init /\ [][NextErrorType]_vars

\* ================================================================ claims
\* text holds sub somewhere.
Contains(text, sub) == \E i \in 1..(Len(text) + 1) : HasAt(text, i, sub)

\* The value parse yields on the unclassified path for the input text.
Unclassified(text) ==
    [msg |-> text, error_type |-> "UndefinedError", code |-> Unmapped]

CanonicalNames == {ErrorType_fmt(t) : t \in ErrorType}

\* The first index from `from` on at which s holds lit, 0 when there is none.
FirstAt(s, lit, from) ==
    LET hits == {i \in from..Len(s) : HasAt(s, i, lit)}
    IN  IF hits = {} THEN 0 ELSE CHOOSE i \in hits : \A j \in hits : i <= j

\* The code position of a text: what stands between the opening "[code="
\* and the first ",error_type=".
CodePosition(s) ==
    IF ~HasAt(s, 1, <<"[", "c", "o", "d", "e", "=">>) THEN None
    ELSE LET j == FirstAt(s, <<",", "e", "r", "r", "o", "r", "_", "t", "y",
            "p", "e", "=">>, 7)
         IN  IF j = 0 THEN None ELSE Some(SubSeq(s, 7, j - 1))

\* The type position of a text: what stands between the first
\* ",error_type=" and the first "]" after it.
TypePosition(s) ==
    IF CodePosition(s) = None THEN None
    ELSE LET j == FirstAt(s, <<",", "e", "r", "r", "o", "r", "_", "t", "y",
            "p", "e", "=">>, 7)
             k == FirstAt(s, <<"]">>, j + 12)
         IN  IF k = 0 THEN None ELSE Some(SubSeq(s, j + 12, k - 1))

HasCharOutside(o, class) ==
    /\ is_some(o)
    /\ \E i \in 1..Len(o[2]) : o[2][i] \notin class

LowerOrHyphen == Lower \cup {"-"}

LetterOrHyphen == Lower \cup Upper \cup {"-"}

Alphanumeric == Lower \cup Upper \cup Digit

IsValue(v) ==
    /\ DOMAIN v = {"msg", "error_type", "code"}
    /\ v.error_type \in ErrorType
    /\ v.code = Unmapped \/ (Len(v.code) = 2 /\ v.code[1] = "Code")

\* C1: parsing the rendering of a value gives back its message, its
\* error_type and its code, and rendering the parsed value gives the same
\* text again.
C1_RoundTrip ==
    (op = "from_str_msg" /\ is_some(src)) =>
        /\ ~panicked
        /\ ret.msg = src[2].msg
        /\ ret.error_type = src[2].error_type
        /\ ret.code = src[2].code
        /\ MappedErrors_fmt(ret) = args.msg

\* C2: Display and msg() yield "[code=<code_value>,error_type=<type_string>]
\* <message>", code_value being the stored code or "none" for Unmapped; a
\* freshly constructed value renders with code=none, and the test's value
\* renders as the test's literal.
C2_RenderFormat ==
    /\ op \in {"fmt", "msg"} =>
          /\ ret = Concat(<< <<"[", "c", "o", "d", "e", "=">>,
                            IF args.self.code = Unmapped THEN <<"n", "o", "n",
                                    "e">>
                            ELSE args.self.code[2],
                            <<",", "e", "r", "r", "o", "r", "_", "t", "y",
                                    "p", "e", "=">>,
                            ErrorType_fmt(args.self.error_type),
                            <<"]", " ">>, args.self.msg >>)
          /\ ErrorType_fmt(args.self.error_type) \in CanonicalNames
          /\ args.self = [msg |-> <<"T", "h", "i", "s", " ", "i", "s", " ",
                  "a", " ", "t", "e", "s", "t", " ", "e", "r", "r", "o",
                  "r">>,
                          error_type |-> "UndefinedError",
                          code |-> Unmapped]
               => ret = <<"[", "c", "o", "d", "e", "=", "n", "o", "n", "e",
                       ",", "e", "r", "r", "o", "r", "_", "t", "y", "p", "e",
                       "=", "u", "n", "d", "e", "f", "i", "n", "e", "d", "-",
                       "e", "r", "r", "o", "r", "]", " ", "T", "h", "i", "s",
                       " ", "i", "s", " ", "a", " ", "t", "e", "s", "t", " ",
                       "e", "r", "r", "o", "r">>
    /\ op = "new" => HasAt(MappedErrors_fmt(ret), 1, <<"[", "c", "o", "d",
            "e", "=", "n", "o", "n", "e", ",", "e", "r", "r", "o", "r", "_",
            "t", "y", "p", "e", "=">>)

C2_Witness ==
    /\ op = "msg"
    /\ args.self.code = Code(<<"A", "B", "1", "2">>)
    /\ args.self.error_type = "UseCaseError"
    /\ HasAt(ret, 1, <<"[", "c", "o", "d", "e", "=", "A", "B", "1", "2", ",",
            "e", "r", "r", "o", "r", "_", "t", "y", "p", "e", "=", "u", "s",
            "e", "-", "c", "a", "s", "e", "-", "e", "r", "r", "o", "r", "]",
            " ">>)

\* C3: an input that does not match the structured pattern is parsed without
\* failure into the whole input as message, UndefinedError and Unmapped.
C3_MalformedFallback ==
    (op = "from_str_msg" /\ ~is_match(args.msg)) =>
        /\ ~panicked
        /\ ret = Unclassified(args.msg)

C3_Witness ==
    /\ op = "from_str_msg"
    /\ args.msg = <<"n", "o", "t", " ", "a", " ", "f", "o", "r", "m", "a",
            "t", "t", "e", "d", " ", "e", "r", "r", "o", "r", " ", "a", "t",
            " ", "a", "l", "l">>
    /\ ret.msg = <<"n", "o", "t", " ", "a", " ", "f", "o", "r", "m", "a", "t",
            "t", "e", "d", " ", "e", "r", "r", "o", "r", " ", "a", "t", " ",
            "a", "l", "l">>

\* C4: an input that matches the pattern with a type token that is not a
\* canonical name is parsed into UndefinedError, the captured tail as message
\* and with_code of the captured code token; the failure is not propagated.
C4_UnknownTypeFallback ==
    (/\ op = "from_str_msg"
     /\ is_match(args.msg)
     /\ captures(args.msg)[2][2] \notin CanonicalNames) =>
        /\ ~panicked
        /\ ret.error_type = "UndefinedError"
        /\ ret.msg = captures(args.msg)[2][3]
        /\ ret.code = IF captures(args.msg)[2][1] = <<"n", "o", "n",
                "e">> THEN Unmapped
                      ELSE Code(captures(args.msg)[2][1])

C4_Witness ==
    /\ op = "from_str_msg"
    /\ args.msg = <<"[", "c", "o", "d", "e", "=", "A", "B", "1", "2", ",",
            "e", "r", "r", "o", "r", "_", "t", "y", "p", "e", "=", "t", "o",
            "t", "a", "l", "l", "y", "-", "b", "o", "g", "u", "s", "]", " ",
            "h", "i">>
    /\ ret = [msg |-> <<"h", "i">>, error_type |-> "UndefinedError",
              code |-> Code(<<"A", "B", "1", "2">>)]

\* C5 as stated: an input whose code position holds a character that is not
\* alphanumeric, or whose type position holds a character that is neither a
\* lowercase letter nor a hyphen, takes the unclassified path.
C5_LowercaseOnly ==
    (/\ op = "from_str_msg"
     /\ \/ HasCharOutside(CodePosition(args.msg), Alphanumeric)
        \/ HasCharOutside(TypePosition(args.msg), LowerOrHyphen)) =>
        ret = Unclassified(args.msg)

\* C5 as amended: the type token admits letters of either case and hyphens.
\* An input whose code position holds a character that is not alphanumeric,
\* or whose type position holds a character that is neither a letter nor a
\* hyphen, does not match and takes the unclassified path.
C5_TokenClasses ==
    (/\ op = "from_str_msg"
     /\ \/ HasCharOutside(CodePosition(args.msg), Alphanumeric)
        \/ HasCharOutside(TypePosition(args.msg), LetterOrHyphen)) =>
        /\ ~is_match(args.msg)
        /\ ret = Unclassified(args.msg)

C5_Witness ==
    /\ op = "from_str_msg"
    /\ args.msg = <<"[", "c", "o", "d", "e", "=", "-", ",", "e", "r", "r",
            "o", "r", "_", "t", "y", "p", "e", "=", "c", "r", "e", "a", "t",
            "i", "o", "n", "-", "e", "r", "r", "o", "r", "]", " ", "h", "i">>
    /\ ret = Unclassified(args.msg)

\* C6: no value holds Code("none"): with_code of "none" yields Unmapped also
\* on a value that carried a code, with_code of another string c yields
\* Code(c), and a value just constructed has code Unmapped.
C6_ReservedNone ==
    /\ is_some(err) => err[2].code # Code(<<"n", "o", "n", "e">>)
    /\ (op \in {"new", "from_str_msg", "with_code"} /\ ~panicked) =>
          ret.code # Code(<<"n", "o", "n", "e">>)
    /\ op = "with_code" =>
          /\ args.code = <<"n", "o", "n", "e">> => ret.code = Unmapped
          /\ args.code # <<"n", "o", "n", "e">> => ret.code = Code(args.code)
    /\ op = "new" => ret.code = Unmapped

C6_Witness ==
    /\ op = "with_code"
    /\ args.code = <<"n", "o", "n", "e">>
    /\ args.self.code = Code(<<"A", "B", "1", "2">>)
    /\ ret.code = Unmapped

\* C7: a construction with a cause returns the message
\* "[Current error] <debug of m>; [Previous error] <debug of the cause's
\* message>", the error_type given and code Unmapped; the cause counts only
\* through its message, and the result has no field for a cause.
C7_Chaining ==
    (op = "new" /\ is_some(args.prev)) =>
        /\ ret.msg = Concat(<< <<"[", "C", "u", "r", "r", "e", "n", "t", " ",
                "e", "r", "r", "o", "r", "]", " ">>, Debug(args.msg),
                              <<";", " ", "[", "P", "r", "e", "v", "i", "o",
                                      "u", "s", " ", "e", "r", "r", "o", "r",
                                      "]", " ">>,
                              Debug(args.prev[2].msg) >>)
        /\ ret.error_type = args.error_type
        /\ ret.code = Unmapped
        /\ DOMAIN ret = {"msg", "error_type", "code"}
        /\ \A t \in ErrorType, c \in {Unmapped, Code(<<"X", "9">>)} :
              new(args.msg, args.exp,
                  Some([args.prev[2] EXCEPT !.error_type = t, !.code = c]),
                  args.error_type).val = ret
        /\ (args.msg = <<"a", "\"", "\\", "\\">> /\ args.prev[2].msg = <<"a",
                "\n", "b">>) =>
              ret.msg = <<"[", "C", "u", "r", "r", "e", "n", "t", " ", "e",
                      "r", "r", "o", "r", "]", " ", "\"", "a", "\\", "\"",
                      "\\", "\\", "\\", "\\", "\"", ";", " ", "[", "P", "r",
                      "e", "v", "i", "o", "u", "s", " ", "e", "r", "r", "o",
                      "r", "]", " ", "\"", "a", "\\", "n", "b", "\"">>

C7_Witness ==
    /\ op = "new"
    /\ is_some(args.prev)
    /\ args.prev[2].code = Code(<<"E", "-", "1">>)
    /\ args.prev[2].error_type # args.error_type
    /\ args.prev[2].msg = <<"a", "\n", "b">>

\* C8: no call panics and every call returns a value; a construction with a
\* cause makes exactly one recursive call, which has no cause, and one
\* without a cause makes none, however deeply the cause was chained.
C8_TotalDepthOne ==
    /\ ~panicked
    /\ op \in {"new", "from_str_msg", "with_code"} => IsValue(ret)
    /\ op \in {"fmt", "msg"} => Len(ret) >= 0
    /\ op = "new" =>
          /\ Len(calls) = IF is_some(args.prev) THEN 2 ELSE 1
          /\ calls[1] = args
          /\ calls[Len(calls)].prev = None
    /\ op = "from_str_msg" => (Len(calls) = 1 /\ calls[1].prev = None)
    /\ op \in {"with_code", "fmt", "msg"} => calls = <<>>

C8_Witness ==
    /\ op = "new"
    /\ is_some(args.prev)
    /\ Depth(args.prev[2]) >= 1
    /\ Len(calls) = 2
    /\ calls[2].prev = None

\* C9: the nine canonical names are pairwise distinct, lowercase and
\* hyphenated; from_str of the name of a variant is that variant, and
\* from_str fails on every other string.
C9_TypeBijection ==
    /\ \A t1, t2 \in ErrorType :
          t1 # t2 => ErrorType_fmt(t1) # ErrorType_fmt(t2)
    /\ \A t \in ErrorType :
          \A i \in 1..Len(ErrorType_fmt(t)) : ErrorType_fmt(t)[i] \in LowerOrHyphen
    /\ op = "ErrorType::fmt" => ErrorType_from_str(ret) = Ok(args.self)
    /\ op = "ErrorType::from_str" =>
          /\ is_some(src) => ret = Ok(src[2])
          /\ \A t \in ErrorType : (ret = Ok(t)) <=> (args.s = ErrorType_fmt(t))
          /\ args.s \notin CanonicalNames => ret = Err

C9_Witness ==
    /\ op = "ErrorType::from_str"
    /\ args.s = <<"C", "r", "e", "a", "t", "i", "o", "n", "-", "e", "r", "r",
            "o", "r">>
    /\ ret = Err

\* C10: a construction logs at level error, with the error_type and the
\* message, when is_expected is Some(false), and at level warn, with the
\* message in debug format, otherwise; one line without a cause, two lines
\* of the same level with a cause, for the original and then the flattened
\* message; from_str_msg logs one warn line; with_code and render log
\* nothing.
C10_LogLines ==
    /\ op = "new" =>
          LET level == IF args.exp = Some(FALSE) THEN "error" ELSE "warn"
              about == IF is_some(args.prev) THEN <<args.msg, ret.msg>>
                       ELSE <<args.msg>>
          IN  /\ Len(log) = Len(about)
              /\ \A i \in 1..Len(log) :
                    /\ log[i].level = level
                    /\ level = "error" =>
                          /\ Contains(log[i].text,
                                      ErrorType_fmt(args.error_type))
                          /\ Contains(log[i].text, about[i])
                    /\ level = "warn" => log[i].text = Debug(about[i])
    /\ op = "from_str_msg" =>
          /\ Len(log) = 1
          /\ log[1].level = "warn"
          /\ log[1].text = Debug(ret.msg)
    /\ op \in {"with_code", "fmt", "msg"} => log = <<>>

C10_Witness ==
    /\ op = "new"
    /\ is_some(args.prev)
    /\ args.exp = Some(FALSE)
    /\ Len(log) = 2
    /\ log[1].level = "error"
    /\ log[2].level = "error"

====
